---- MODULE Spec2Model ----
(***************************************************************************)
(* prettyblk (src/src/main.rs): one-shot listing of block devices.         *)
(* main() builds every Drive (read_drives), asks the terminal width, and   *)
(* then prints a chart per drive (print_drive_chart).  The environment     *)
(* (sysfs listings, size files, /proc/mounts, statvfs, the terminal) is    *)
(* modelled as a nondeterministic answer to each read, so /proc/mounts may  *)
(* differ between any two reads of it.                                     *)
(*                                                                         *)
(* Arithmetic.  f64 expressions of the source are evaluated on integers:   *)
(* x.round() is round-half-away-from-zero, {:.N} formatting is             *)
(* round-half-even on the exact value.  For the sector counts and byte     *)
(* counts enumerated here (all far below 2^53, divisors below 10) the      *)
(* binary64 results coincide with the exact ones.                          *)
(***************************************************************************)
EXTENDS Integers, Sequences, FiniteSets, TLC

VARIABLES
    pc,            \* position of main()
    lastIO,        \* history: the last read the program issued and its answer
    blockEntries,  \* read_drives: entries of /sys/block/ the iterator has yet to yield
    yielded,       \* history: the entries of /sys/block/ the iterator has yielded
    drives,        \* Vec<Drive> collected so far, then main's `drives`
    cur,           \* Drive::new: the drive being built
    dirEntries,    \* get_partitions: entries of /sys/block/<drive>/ yet to be yielded
    part,          \* Partition::new: the partition being built
    mountpoints,   \* Partition::new: the local `mountpoints` while it lives
    content,       \* get_mountpoints: the text read from /proc/mounts, when
                   \* get_mountpoints is run on its own
    absentAtDiscovery, \* history: partitions whose device path was not in the
                       \* mount mapping read by Partition::new
    chart_width,   \* main: get_terminal_width()
    di,            \* main: index of the drive being rendered
    pi,            \* print_drive_chart: loop index i (1-based here)
    used_width,    \* print_drive_chart: used_width
    bar,           \* print_drive_chart: cells printed since "["
    out            \* stdout: the lines printed so far

vars == <<pc, lastIO, blockEntries, yielded, drives, cur, dirEntries,
          part, mountpoints, content, absentAtDiscovery,
          chart_width, di, pi, used_width, bar, out>>

-----------------------------------------------------------------------------
(* Bounds of the model *)

\* entries in a listing of /sys/block/
MaxDrives == 2
\* entries in a listing of /sys/block/<drive>/
MaxEntries == 2
\* lines of /proc/mounts
MaxLines == 3
\* partitions of a drive handed directly to print_drive_chart
ChartMaxParts == 2
\* largest sector count of a drive or partition handed to print_drive_chart
ChartMaxSize == 3

-----------------------------------------------------------------------------
(* Option<T>, strings *)

None == <<>>
Some(v) == <<v>>
IsSome(o) == Len(o) = 1
Unwrap(o) == o[1]

\* str::starts_with
StartsWith(s, prefix) ==
    /\ Len(s) >= Len(prefix)
    /\ SubSeq(s, 1, Len(prefix)) = prefix

\* s.split('/').last(): the text after the last '/', all of s if there is none
RECURSIVE LastComponentFrom(_, _)
LastComponentFrom(s, k) ==
    IF k = 0 THEN s
    ELSE IF SubSeq(s, k, k) = "/" THEN SubSeq(s, k + 1, Len(s))
    ELSE LastComponentFrom(s, k - 1)

LastComponent(s) == LastComponentFrom(s, Len(s))

\* str::repeat on a one-cell string, as a sequence of cells
Repeat(c, n) == [k \in 1..n |-> c]

RECURSIVE Spaces(_)
Spaces(n) == IF n <= 0 THEN "" ELSE " " \o Spaces(n - 1)

\* format!("{:width$}", s): left-aligned, padded with spaces on the right
PadRight(s, w) == s \o Spaces(w - Len(s))
\* format!("{:>width$}", s): right-aligned, padded with spaces on the left
PadLeft(s, w) == Spaces(w - Len(s)) \o s

Max2(a, b) == IF a >= b THEN a ELSE b
Min2(a, b) == IF a <= b THEN a ELSE b

\* mutant of RoundHalfUp: the cast alone, without round(), truncates
RoundDown(n, d) == n \div d

\* f64::round of the non-negative quotient n / d (d > 0): halves go up
RoundHalfUp(n, d) == (2 * n + d) \div (2 * d)

\* {:.N} formatting of n / d (d > 0) counted in units of 10^-N: halves go to even
RoundHalfEven(n, d) ==
    LET q == n \div d
        r == n % d
    IN  IF 2 * r < d THEN q
        ELSE IF 2 * r > d THEN q + 1
        ELSE IF q % 2 = 0 THEN q ELSE q + 1

\* the decimal text of n / 10^digits, e.g. Decimal(125, 2) = "1.25"
Decimal(n, digits) ==
    LET scale == IF digits = 1 THEN 10 ELSE 100
        frac == n % scale
    IN  ToString(n \div scale) \o "." \o
        (IF digits = 2 /\ frac < 10 THEN "0" ELSE "") \o ToString(frac)

-----------------------------------------------------------------------------
(* The environment's possible answers *)

\* names that may appear in /sys/block/
DeviceNames == {"sda", "sdb", "dm-0"}

\* sequences over S of length at most n, without repetition (a directory
\* listing names each entry once)
RECURSIVE Listings(_, _)
Listings(S, n) ==
    IF n = 0 THEN {<<>>}
    ELSE LET shorter == Listings(S, n - 1)
         IN  shorter \cup
             {Append(l, x) : l \in {m \in shorter : Len(m) = n - 1}, x \in S}

NoRepeat(l) == \A i, j \in 1..Len(l) : l[i] = l[j] => i = j

\* read_dir("/sys/block/"): a failure, or the entries
BlockListings == {l \in Listings(DeviceNames, MaxDrives) : NoRepeat(l)}

\* entries that may appear in /sys/block/<drive>/: two partitions and an
\* attribute directory that is no partition
DirNames(drive) == {drive \o "1", drive \o "2", "queue"}

DirListings(drive) == {l \in Listings(DirNames(drive), MaxEntries) : NoRepeat(l)}

\* the answer to reading a size file: unreadable, unparsable text, or a number
SizeUnreadable == [readable |-> FALSE, value |-> None]
SizeGarbage == [readable |-> TRUE, value |-> None]
SizeNumber(n) == [readable |-> TRUE, value |-> Some(n)]

\* sector counts found in size files
SectorCounts == {0, 2}

SizeFiles == {SizeUnreadable, SizeGarbage} \cup {SizeNumber(n) : n \in SectorCounts}

\* /proc/mounts: unreadable, or lines, each line the sequence of its
\* whitespace-separated fields
MountsUnreadable == [readable |-> FALSE, lines |-> <<>>]
MountsOf(ls) == [readable |-> TRUE, lines |-> ls]

\* what a read of /proc/mounts may answer while main() runs
MountFiles ==
    { MountsUnreadable,
      MountsOf(<<>>),
      MountsOf(<< <<"/dev/sda1", "/", "ext4">> >>),
      MountsOf(<< <<"/dev/sda1", "/", "ext4">>, <<"/dev/sda1", "/home", "ext4">> >>) }

\* lines of the mount tables given to get_mountpoints on its own
MountLines ==
    { <<>>,
      <<"/dev/sda1">>,
      <<"/dev/sda1", "/">>,
      <<"/dev/sda1", "/home", "ext4">>,
      <<"/dev/sda2", "/">>,
      <<"proc", "/proc", "proc">> }

MountTables ==
    {MountsUnreadable} \cup {MountsOf(ls) : ls \in Listings(MountLines, MaxLines)}

\* statvfs: a failure, or blocks, blocks_free and block_size
BlockCounts == {0, 1}
BlockSizes == {512}

StatvfsFailed == [ok |-> FALSE, blocks |-> 0, bfree |-> 0, bsize |-> 0]

StatvfsAnswers ==
    {StatvfsFailed} \cup
    {r \in [ok : {TRUE}, blocks : BlockCounts, bfree : BlockCounts, bsize : BlockSizes] :
        r.bfree <= r.blocks}

\* terminal_size(): no terminal, or a number of columns
TermCols == {13}
TermSizes == {None} \cup {Some(w) : w \in TermCols}

-----------------------------------------------------------------------------
(* Pure functions of the program *)

\* read_size: Err when the file cannot be read, else Ok(parse or 0)
read_size(file) ==
    IF ~file.readable THEN None
    ELSE Some(IF IsSome(file.value) THEN Unwrap(file.value) ELSE 0)

\* Result::unwrap_or / Option::unwrap_or
UnwrapOr(o, d) == IF IsSome(o) THEN Unwrap(o) ELSE d

\* HashMap<String, String> as a function; insert replaces an existing key
EmptyMap == [k \in {} |-> ""]

\* mutant of Insert: an existing key keeps its value (entry().or_insert())
InsertIfAbsent(m, k, v) ==
    [x \in DOMAIN m \cup {k} |-> IF x \in DOMAIN m THEN m[x] ELSE v]

Insert(m, k, v) == [x \in DOMAIN m \cup {k} |-> IF x = k THEN v ELSE m[x]]
Get(m, k) == IF k \in DOMAIN m THEN Some(m[k]) ELSE None

\* the for loop of get_mountpoints over lines[1..n]
RECURSIVE MountLoop(_, _)
MountLoop(lines, n) ==
    IF n = 0 THEN EmptyMap
    ELSE LET m == MountLoop(lines, n - 1)
             parts == lines[n]
         IN  IF Len(parts) >= 2 THEN Insert(m, parts[1], parts[2]) ELSE m

get_mountpoints(file) ==
    IF file.readable THEN MountLoop(file.lines, Len(file.lines)) ELSE EmptyMap

\* "/dev/" + the last path component of a partition name
DevPath(name) == "/dev/" \o LastComponent(name)

\* mutant of UsedBytes: a failed statvfs counts as nothing used
UsedBytesOrZero(stat) ==
    IF stat.ok
    THEN Some(stat.blocks * stat.bsize - stat.bfree * stat.bsize)
    ELSE Some(0)

\* Partition::new, lines 31-35: bytes used, None when statvfs fails
UsedBytes(stat) ==
    IF stat.ok
    THEN Some(stat.blocks * stat.bsize - stat.bfree * stat.bsize)
    ELSE None

\* get_terminal_width
get_terminal_width(t) ==
    IF IsSome(t) THEN Min2(Max2(Unwrap(t) - 10, 0), 100) ELSE 80

\* mutant of PartWidth: the width is not clamped to what is left of the bar
PartWidthUnclamped(size, drive_size, width, used) ==
    RoundHalfUp(size * width, Max2(drive_size, 1))

\* print_drive_chart, lines 102, 117-118: the segment width of a partition
\* of `size` sectors when `used` cells are already drawn
PartWidth(size, drive_size, width, used) ==
    LET total_size == Max2(drive_size, 1)
    IN  Min2(RoundHalfUp(size * width, total_size), width - used)

symbols == <<"full", "dark", "medium", "light">>
colors == <<"Green", "Yellow", "Blue", "Magenta", "Cyan">>

\* symbols[i % symbols.len()] and colors[i % colors.len()] for the 1-based k
SymbolOf(k) == symbols[((k - 1) % Len(symbols)) + 1]
ColorOf(k) == colors[((k - 1) % Len(colors)) + 1]

\* width of the mini usage bar, and of the "used / size GB" text
MiniBarWidth == 20
SizeTextWidth == 18

\* mutant of Filled: the ratio is not clamped to [0, 1]; the count is cut
\* to the bar afterwards
FilledUnclamped(u, size) ==
    IF size = 0 THEN (IF u = 0 THEN 0 ELSE MiniBarWidth)
    ELSE RoundHalfUp(u * MiniBarWidth, size * 512)

\* lines 155-157: filled cells of the mini bar.  0.0 / 0.0 is NaN, which
\* clamp keeps and `as usize` turns into 0; u / 0.0 is +inf, clamped to 1.
Filled(u, size) ==
    LET total_bytes == size * 512
    IN  IF total_bytes = 0 THEN (IF u = 0 THEN 0 ELSE MiniBarWidth)
        ELSE IF u >= total_bytes THEN MiniBarWidth
        ELSE RoundHalfUp(u * MiniBarWidth, total_bytes)

\* mutant of UsageBar: an absent `used` is drawn as an empty bar
UsageBarNoneAsZero(used, size, color) ==
    LET filled == Filled(UnwrapOr(used, 0), size)
    IN  [mounted |-> TRUE, color |-> color,
         cells |-> Repeat("full", filled) \o Repeat("light", MiniBarWidth - filled)]

\* lines 154-162: the usage column
UsageBar(used, size, color) ==
    IF IsSome(used)
    THEN LET filled == Filled(Unwrap(used), size)
         IN  [mounted |-> TRUE, color |-> color,
              cells |-> Repeat("full", filled) \o Repeat("light", MiniBarWidth - filled)]
    ELSE [mounted |-> FALSE, color |-> "dimmed", cells |-> <<"Unmounted">>]

\* sectors * 512 / 1024^3 = sectors / 2^21, bytes / 2^30, formatted
SectorsPerGB == 2097152
BytesPerGB == 1073741824

SizeGB(sectors, digits) ==
    Decimal(RoundHalfEven(sectors * (IF digits = 1 THEN 10 ELSE 100), SectorsPerGB), digits)

UsedGB(used) ==
    Decimal(RoundHalfEven(UnwrapOr(used, 0) * 10, BytesPerGB), 1)

\* lines 151-152
SizeStr(p) == PadLeft(UsedGB(p.used) \o " / " \o SizeGB(p.size, 1) \o " GB", SizeTextWidth)

\* lines 136-141: the longest partition name
RECURSIVE NameWidth(_)
NameWidth(ps) ==
    IF ps = <<>> THEN 0 ELSE Max2(Len(Head(ps).name), NameWidth(Tail(ps)))

\* lines 105-110: the header line
HeaderLine(drive) ==
    [kind |-> "header", name |-> drive.name, gb |-> SizeGB(drive.size, 2)]

\* lines 145-178: the detail line of the k-th partition, given the mount
\* mapping read for it
DetailLine(drive, k, mounts) ==
    LET p == drive.partitions[k]
    IN  [kind |-> "detail",
         marker |-> ColorOf(k),
         name_str |-> PadRight(p.name, NameWidth(drive.partitions)),
         usage |-> UsageBar(p.used, p.size, ColorOf(k)),
         size_str |-> SizeStr(p),
         mountpoint |-> UnwrapOr(Get(mounts, DevPath(p.name)), "-")]

-----------------------------------------------------------------------------
(* The program: main() *)

NoDrive == [name |-> "", size |-> 0, partitions |-> <<>>]
NoPart == [name |-> "", size |-> 0, used |-> None]
NoMounts == MountsOf(<<>>)
NoIO == [op |-> "none", path |-> "", ok |-> TRUE]

IO(op, path, ok) == [op |-> op, path |-> path, ok |-> ok]

Init ==
    /\ pc = "read_drives"
    /\ lastIO = NoIO
    /\ blockEntries = <<>>
    /\ yielded = <<>>
    /\ drives = <<>>
    /\ cur = NoDrive
    /\ dirEntries = <<>>
    /\ part = NoPart
    /\ mountpoints = EmptyMap
    /\ content = NoMounts
    /\ absentAtDiscovery = {}
    /\ chart_width = 0
    /\ di = 1
    /\ pi = 1
    /\ used_width = 0
    /\ bar = <<>>
    /\ out = <<>>

renderVars == <<chart_width, di, pi, used_width, bar, out>>
buildVars == <<blockEntries, yielded, drives, cur, dirEntries, part, mountpoints, content,
               absentAtDiscovery>>

\* mutant of PanicPc: the failed listing is taken as empty (unwrap_or_default)
PanicIgnored == "next_part"

\* Result::unwrap on an Err, lines 58 and 79: the panic ends the run
PanicPc == "aborted"

\* mutant of AfterDriveDone: each Drive is rendered as soon as it is built
AfterDriveDoneRender == "render"

\* read_drives, line 85: collect() takes the next entry before anything else runs
AfterDriveDone == "next_entry"

\* read_drives, lines 78-79: read_dir("/sys/block/").unwrap()
ListBlockDevices ==
    /\ pc = "read_drives"
    /\ \E ok \in BOOLEAN :
         /\ lastIO' = IO("read_dir", "/sys/block/", ok)
         /\ IF ok
            THEN /\ \E l \in BlockListings : blockEntries' = l
                 /\ pc' = "next_entry"
            ELSE /\ blockEntries' = blockEntries
                 /\ pc' = PanicPc
    /\ UNCHANGED <<yielded, drives, cur, dirEntries, part, mountpoints, content,
                   absentAtDiscovery, renderVars>>

\* mutant of IsDeviceMapper: the name is compared, not its prefix
IsDeviceMapperExact(name) == name = "dm"

\* read_drives, line 82: the filter on names
IsDeviceMapper(name) == StartsWith(name, "dm")

\* read_drives, lines 81-83: an entry whose name starts with "dm" is dropped
SkipDeviceMapper ==
    /\ pc = "next_entry"
    /\ blockEntries # <<>>
    /\ IsDeviceMapper(Head(blockEntries))
    /\ blockEntries' = Tail(blockEntries)
    /\ yielded' = Append(yielded, Head(blockEntries))
    /\ UNCHANGED <<pc, lastIO, drives, cur, dirEntries, part, mountpoints, content,
                   absentAtDiscovery, renderVars>>

\* read_drives, line 84, Drive::new, line 50: read_size(_name).unwrap_or(0)
DriveReadSize ==
    /\ pc = "next_entry"
    /\ blockEntries # <<>>
    /\ ~IsDeviceMapper(Head(blockEntries))
    /\ \E file \in SizeFiles :
         LET name == Head(blockEntries)
             r == read_size(file)
         IN  /\ lastIO' = IO("read_size", "/sys/block/" \o name \o "/size", IsSome(r))
             /\ cur' = [name |-> name, size |-> UnwrapOr(r, 0), partitions |-> <<>>]
    /\ blockEntries' = Tail(blockEntries)
    /\ yielded' = Append(yielded, Head(blockEntries))
    /\ pc' = "get_partitions"
    /\ UNCHANGED <<drives, dirEntries, part, mountpoints, content, absentAtDiscovery,
                   renderVars>>

\* get_partitions, lines 57-58: read_dir("/sys/block/<drive>/").unwrap()
ListPartitions ==
    /\ pc = "get_partitions"
    /\ \E ok \in BOOLEAN :
         /\ lastIO' = IO("read_dir", "/sys/block/" \o cur.name \o "/", ok)
         /\ IF ok
            THEN /\ \E l \in DirListings(cur.name) : dirEntries' = l
                 /\ pc' = "next_part"
            ELSE /\ dirEntries' = dirEntries
                 /\ pc' = PanicPc
    /\ UNCHANGED <<blockEntries, yielded, drives, cur, part, mountpoints, content,
                   absentAtDiscovery, renderVars>>

\* get_partitions, line 67: an entry not named after the drive is dropped
SkipEntry ==
    /\ pc = "next_part"
    /\ dirEntries # <<>>
    /\ ~StartsWith(Head(dirEntries), cur.name)
    /\ dirEntries' = Tail(dirEntries)
    /\ UNCHANGED <<pc, lastIO, blockEntries, yielded, drives, cur, part, mountpoints, content,
                   absentAtDiscovery, renderVars>>

\* get_partitions, line 68, Partition::new, line 26: read_size(&_name).unwrap_or(0)
PartitionReadSize ==
    /\ pc = "next_part"
    /\ dirEntries # <<>>
    /\ StartsWith(Head(dirEntries), cur.name)
    /\ \E file \in SizeFiles :
         LET name == cur.name \o "/" \o Head(dirEntries)
             r == read_size(file)
         IN  /\ lastIO' = IO("read_size", "/sys/block/" \o name \o "/size", IsSome(r))
             /\ part' = [name |-> name, size |-> UnwrapOr(r, 0), used |-> None]
    /\ dirEntries' = Tail(dirEntries)
    /\ pc' = "part_mounts"
    /\ UNCHANGED <<blockEntries, yielded, drives, cur, mountpoints, content, absentAtDiscovery,
                   renderVars>>

\* Partition::new, line 27: let mountpoints = get_mountpoints()
PartitionReadMounts ==
    /\ pc = "part_mounts"
    /\ \E file \in MountFiles :
         /\ lastIO' = IO("read_mounts", "/proc/mounts", file.readable)
         /\ mountpoints' = get_mountpoints(file)
    /\ pc' = "part_probe"
    /\ UNCHANGED <<blockEntries, yielded, drives, cur, dirEntries, part, content,
                   absentAtDiscovery, renderVars>>

\* Partition::new, lines 29-42, and the collect of get_partitions: look the
\* device path up, ask statvfs for the mount path when there is one, and
\* return the Partition
PartitionProbe ==
    /\ pc = "part_probe"
    /\ LET mount == Get(mountpoints, DevPath(part.name))
       IN  IF IsSome(mount)
           THEN /\ \E stat \in StatvfsAnswers :
                     /\ lastIO' = IO("statvfs", Unwrap(mount), stat.ok)
                     /\ cur' = [cur EXCEPT !.partitions =
                                  Append(@, [part EXCEPT !.used = UsedBytes(stat)])]
                /\ absentAtDiscovery' = absentAtDiscovery
           ELSE /\ lastIO' = lastIO
                /\ cur' = [cur EXCEPT !.partitions = Append(@, [part EXCEPT !.used = None])]
                /\ absentAtDiscovery' = absentAtDiscovery \cup {part.name}
    /\ part' = NoPart
    /\ mountpoints' = EmptyMap
    /\ pc' = "next_part"
    /\ UNCHANGED <<blockEntries, yielded, drives, dirEntries, content, renderVars>>

\* Drive::new returns, read_drives pushes the Drive and goes to the next entry
DriveDone ==
    /\ pc = "next_part"
    /\ dirEntries = <<>>
    /\ drives' = Append(drives, cur)
    /\ cur' = NoDrive
    /\ pc' = AfterDriveDone
    /\ UNCHANGED <<lastIO, blockEntries, yielded, dirEntries, part, mountpoints, content,
                   absentAtDiscovery, renderVars>>

\* main, lines 191-192: read_drives has returned; get_terminal_width()
GetTerminalWidth ==
    /\ pc = "next_entry"
    /\ blockEntries = <<>>
    /\ \E t \in TermSizes : chart_width' = get_terminal_width(t)
    /\ di' = 1
    /\ pc' = "render"
    /\ UNCHANGED <<lastIO, buildVars, pi, used_width, bar, out>>

-----------------------------------------------------------------------------
(* print_drive_chart *)

\* print_drive_chart, lines 102-111: the header line and "["
PrintHeader ==
    /\ pc = "render"
    /\ di <= Len(drives)
    /\ out' = Append(out, HeaderLine(drives[di]))
    /\ used_width' = 0
    /\ bar' = <<>>
    /\ pi' = 1
    /\ pc' = "bar"
    /\ UNCHANGED <<lastIO, buildVars, chart_width, di>>

\* lines 116-128: one iteration of the aggregate-bar loop
BarSegment ==
    /\ pc = "bar"
    /\ pi <= Len(drives[di].partitions)
    /\ LET part_width == PartWidth(drives[di].partitions[pi].size, drives[di].size,
                                   chart_width, used_width)
       IN  IF part_width = 0
           THEN UNCHANGED <<bar, used_width>>
           ELSE /\ bar' = bar \o Repeat(<<SymbolOf(pi), ColorOf(pi)>>, part_width)
                /\ used_width' = used_width + part_width
    /\ pi' = pi + 1
    /\ UNCHANGED <<pc, lastIO, buildVars, chart_width, di, out>>

\* lines 130-134: the padding and "]"
BarEnd ==
    /\ pc = "bar"
    /\ pi > Len(drives[di].partitions)
    /\ out' = Append(out,
                [kind |-> "bar",
                 cells |-> IF used_width < chart_width
                           THEN bar \o Repeat(<<" ", "none">>, chart_width - used_width)
                           ELSE bar])
    /\ bar' = <<>>
    /\ pi' = 1
    /\ pc' = "detail"
    /\ UNCHANGED <<lastIO, buildVars, chart_width, di, used_width>>

\* lines 145-179: one detail line, with its own read of /proc/mounts
PrintDetail ==
    /\ pc = "detail"
    /\ pi <= Len(drives[di].partitions)
    /\ \E file \in MountFiles :
         /\ lastIO' = IO("read_mounts", "/proc/mounts", file.readable)
         /\ out' = Append(out, DetailLine(drives[di], pi, get_mountpoints(file)))
    /\ pi' = pi + 1
    /\ UNCHANGED <<pc, buildVars, chart_width, di, used_width, bar>>

\* print_drive_chart returns; main, line 194: the next drive
DriveRendered ==
    /\ pc = "detail"
    /\ pi > Len(drives[di].partitions)
    /\ di' = di + 1
    /\ pi' = 1
    /\ pc' = "render"
    /\ UNCHANGED <<lastIO, buildVars, chart_width, used_width, bar, out>>

\* main returns
Exit ==
    /\ pc = "render"
    /\ di > Len(drives)
    /\ pc' = "done"
    /\ UNCHANGED <<lastIO, buildVars, renderVars>>

Next ==
    \/ ListBlockDevices
    \/ SkipDeviceMapper
    \/ DriveReadSize
    \/ ListPartitions
    \/ SkipEntry
    \/ PartitionReadSize
    \/ PartitionReadMounts
    \/ PartitionProbe
    \/ DriveDone
    \/ GetTerminalWidth
    \/ PrintHeader
    \/ BarSegment
    \/ BarEnd
    \/ PrintDetail
    \/ DriveRendered
    \/ Exit

Spec == Init /\ [][Next]_vars

-----------------------------------------------------------------------------
(* print_drive_chart on its own: any drive, any width *)

\* byte counts statvfs may yield for the mounted partition of a charted drive
ChartUsedBytes == {0, 64, 256, 1024}

\* terminal widths behind the chart widths
ChartTermSizes == {None} \cup {Some(w) : w \in {0, 11, 13, 14}}
ChartWidths == {get_terminal_width(t) : t \in ChartTermSizes}

ChartSizes == 0..ChartMaxSize

RECURSIVE SizeLists(_)
SizeLists(n) ==
    IF n = 0 THEN {<<>>}
    ELSE SizeLists(n - 1) \cup
         {Append(l, x) : l \in {m \in SizeLists(n - 1) : Len(m) = n - 1}, x \in ChartSizes}

\* the partitions of a charted drive: the k-th is sda<k>, and at most one,
\* the m-th, is mounted (m = 0: none, otherwise the last)
ChartPartitions(sizes, m, u) ==
    [k \in 1..Len(sizes) |->
        [name |-> "sda/sda" \o ToString(k),
         size |-> sizes[k],
         used |-> IF k = m THEN Some(u) ELSE None]]

ChartDrives ==
    UNION {
        {[name |-> "sda", size |-> s, partitions |-> ChartPartitions(sizes, m, u)] :
            s \in ChartSizes, m \in {0, Len(sizes)}, u \in ChartUsedBytes}
        : sizes \in SizeLists(ChartMaxParts)}

InitChart ==
    /\ pc = "render"
    /\ lastIO = NoIO
    /\ blockEntries = <<>>
    /\ yielded = <<>>
    /\ \E d \in ChartDrives :
         /\ drives = <<d>>
         /\ absentAtDiscovery =
              {d.partitions[k].name : k \in {j \in 1..Len(d.partitions) :
                                               ~IsSome(d.partitions[j].used)}}
    /\ cur = NoDrive
    /\ dirEntries = <<>>
    /\ part = NoPart
    /\ mountpoints = EmptyMap
    /\ content = NoMounts
    /\ chart_width \in ChartWidths
    /\ di = 1
    /\ pi = 1
    /\ used_width = 0
    /\ bar = <<>>
    /\ out = <<>>

NextChart ==
    \/ PrintHeader
    \/ BarSegment
    \/ BarEnd
    \/ PrintDetail
    \/ DriveRendered
    \/ Exit

SpecChart == InitChart /\ [][NextChart]_vars

-----------------------------------------------------------------------------
(* get_mountpoints on its own: any mount table *)

InitMounts ==
    /\ pc = "get_mountpoints"
    /\ content \in MountTables
    /\ lastIO = NoIO
    /\ blockEntries = <<>>
    /\ yielded = <<>>
    /\ drives = <<>>
    /\ cur = NoDrive
    /\ dirEntries = <<>>
    /\ part = NoPart
    /\ mountpoints = EmptyMap
    /\ absentAtDiscovery = {}
    /\ chart_width = 0
    /\ di = 1
    /\ pi = 1
    /\ used_width = 0
    /\ bar = <<>>
    /\ out = <<>>

\* get_mountpoints, lines 88-99, on the text in `content`
GetMountpointsCall ==
    /\ pc = "get_mountpoints"
    /\ lastIO' = IO("read_mounts", "/proc/mounts", content.readable)
    /\ mountpoints' = get_mountpoints(content)
    /\ pc' = "mounts_returned"
    /\ UNCHANGED <<blockEntries, yielded, drives, cur, dirEntries, part, content,
                   absentAtDiscovery, renderVars>>

NextMounts == GetMountpointsCall

SpecMounts == InitMounts /\ [][NextMounts]_vars

-----------------------------------------------------------------------------
(* Reading the output *)

\* lines printed for drives[1..j-1]: a header, a bar and a line per partition
RECURSIVE Offset(_)
Offset(j) == IF j <= 1 THEN 0 ELSE Offset(j - 1) + 2 + Len(drives[j - 1].partitions)

BarPrinted(j) == j \in 1..Len(drives) /\ Offset(j) + 2 <= Len(out)
BarOf(j) == out[Offset(j) + 2]

DetailPrinted(j, k) ==
    /\ j \in 1..Len(drives)
    /\ k \in 1..Len(drives[j].partitions)
    /\ Offset(j) + 2 + k <= Len(out)
DetailOf(j, k) == out[Offset(j) + 2 + k]

Count(cells, c) == Cardinality({x \in 1..Len(cells) : cells[x] = c})

Blank == <<" ", "none">>

\* the integer nearest to n / t, halves up, told by its two bounds
Nearest(n, t) ==
    CHOOSE r \in {n \div t, n \div t + 1} : (2 * r - 1) * t <= 2 * n /\ 2 * n < (2 * r + 1) * t

\* the style of the i-th partition (0-based i, as in the source)
StyleOf(i) ==
    << <<"full", "dark", "medium", "light">>[(i % 4) + 1],
       <<"Green", "Yellow", "Blue", "Magenta", "Cyan">>[(i % 5) + 1] >>

\* first-come widths of the partitions of drives[j], for the 1-based k
RECURSIVE Allocated(_, _)
RECURSIVE AllocatedBefore(_, _)
AllocatedBefore(j, k) ==
    IF k <= 1 THEN 0 ELSE AllocatedBefore(j, k - 1) + Allocated(j, k - 1)
Allocated(j, k) ==
    LET d == drives[j]
        divisor == IF d.size = 0 THEN 1 ELSE d.size
        share == Nearest(d.partitions[k].size * chart_width, divisor)
        left == chart_width - AllocatedBefore(j, k)
    IN  IF share <= left THEN share ELSE left

RECURSIVE Segments(_, _)
Segments(j, k) ==
    IF k = 0 THEN <<>>
    ELSE Segments(j, k - 1) \o [x \in 1..Allocated(j, k) |-> StyleOf(k - 1)]

-----------------------------------------------------------------------------
(* Claims about print_drive_chart, checked under SpecChart *)

\* C1: the running total used_width never exceeds the chart width, after
\* every partition processed, for any drive size (0 included), any partition
\* sizes (larger than the drive included) and any width (0 included); so the
\* segments drawn never exceed the width and width - used_width is never
\* negative.
C1_SegmentsWithinWidth ==
    /\ 0 <= used_width
    /\ used_width <= chart_width
    /\ Len(bar) <= chart_width
    /\ \A j \in 1..Len(drives) :
         BarPrinted(j) =>
             Len(BarOf(j).cells) - Count(BarOf(j).cells, Blank) <= chart_width

\* C1 happens: a partition larger than its drive filled the bar and the
\* next partition, of non-zero size, was clamped to nothing
C1_Witness ==
    /\ pc = "detail"
    /\ chart_width > 0
    /\ used_width = chart_width
    /\ LET d == drives[di]
       IN  /\ d.size > 0
           /\ Len(d.partitions) = 2
           /\ d.partitions[1].size > d.size
           /\ d.partitions[2].size > 0

\* C2: when drive.size = 0 the divisor is 1 and every partition of the
\* drive, whatever its size, gets a segment of width 0: nothing is drawn
\* and the bar is blank padding only.
C2_ZeroSizeDriveDrawsNothing ==
    (pc \in {"bar", "detail"} /\ drives[di].size = 0)
        => (used_width = 0 /\ bar = <<>>)

\* C7: for a partition with used present the mini bar has exactly 20 cells,
\* filled first; filled is 20 * min(1, used / (size * 512)) rounded to the
\* nearest integer with halves up, so 0 <= filled <= 20 whatever used and
\* size are (used beyond the partition and size 0 included), and a ratio of
\* exactly 1/2 gives 10.
C7_MiniBar ==
    \A j \in 1..Len(drives) : \A k \in 1..Len(drives[j].partitions) :
        (DetailPrinted(j, k) /\ IsSome(drives[j].partitions[k].used)) =>
            LET p == drives[j].partitions[k]
                u == Unwrap(p.used)
                t == p.size * 512
                cells == DetailOf(j, k).usage.cells
                f == Count(cells, "full")
            IN  /\ DetailOf(j, k).usage.mounted
                /\ Len(cells) = 20
                /\ f \in 0..20
                /\ \A x \in 1..20 : cells[x] = IF x <= f THEN "full" ELSE "light"
                /\ (t > 0 /\ u >= t) => f = 20
                /\ (t = 0 /\ u > 0) => f = 20
                /\ (t > 0 /\ u < t) => ((2 * f - 1) * t <= 40 * u /\ 40 * u < (2 * f + 1) * t)
                /\ (t > 0 /\ 2 * u = t) => f = 10

\* C7 happens: a mounted partition half full, its line printed
C7_Witness ==
    \E k \in 1..Len(drives[1].partitions) :
        /\ DetailPrinted(1, k)
        /\ drives[1].partitions[k].size > 0
        /\ drives[1].partitions[k].used = Some(drives[1].partitions[k].size * 256)
        /\ Count(DetailOf(1, k).usage.cells, "full") = 10

\* C8: the bar is allocated first come in discovery order: the i-th segment
\* is min(round(size / max(drive.size, 1) * width), width - widths before);
\* a width of 0 draws nothing (a partition of size 0 never draws) yet keeps
\* its index for symbol and colour, so its marker is colors[i mod 5]; blank
\* cells fill the bar to exactly width cells.
C8_FirstComeAllocation ==
    \A j \in 1..Len(drives) :
        /\ BarPrinted(j) =>
             LET n == Len(drives[j].partitions)
                 cells == BarOf(j).cells
             IN  /\ Len(cells) = chart_width
                 /\ cells = Segments(j, n) \o
                            [x \in 1..(chart_width - AllocatedBefore(j, n + 1)) |-> Blank]
                 /\ \A k \in 1..n :
                      /\ Count(cells, StyleOf(k - 1)) = Allocated(j, k)
                      /\ drives[j].partitions[k].size = 0 => Count(cells, StyleOf(k - 1)) = 0
        /\ \A k \in 1..Len(drives[j].partitions) :
             DetailPrinted(j, k) => DetailOf(j, k).marker = StyleOf(k - 1)[2]

\* C8 happens: a first partition of size 0 drew nothing, the second drew
\* some cells in its own style, and padding filled the rest
C8_Witness ==
    /\ pc = "detail"
    /\ pi = 3
    /\ drives[1].partitions[1].size = 0
    /\ 0 < used_width
    /\ used_width < chart_width
    /\ Count(BarOf(1).cells, StyleOf(1)) = used_width
    /\ DetailOf(1, 1).marker = "Green"

-----------------------------------------------------------------------------
(* Claims about get_mountpoints, checked under SpecMounts *)

\* C9: get_mountpoints maps every device path that is the first field of a
\* line with at least two fields to the second field of the last such line;
\* shorter lines add nothing; an unreadable /proc/mounts gives the empty
\* mapping and no error.
C9_LastMountWins ==
    pc = "mounts_returned" =>
        LET lines == content.lines
            Usable(i) == Len(lines[i]) >= 2
            keys == {lines[i][1] : i \in {x \in 1..Len(lines) : Usable(x)}}
            LastOf(k) == CHOOSE i \in 1..Len(lines) :
                            /\ Usable(i)
                            /\ lines[i][1] = k
                            /\ \A x \in (i + 1)..Len(lines) : ~(Usable(x) /\ lines[x][1] = k)
        IN  IF content.readable
            THEN /\ DOMAIN mountpoints = keys
                 /\ \A k \in keys : mountpoints[k] = lines[LastOf(k)][2]
                 /\ lastIO.ok
            ELSE /\ DOMAIN mountpoints = {}
                 /\ ~lastIO.ok

\* C9 happens: /dev/sda1 is listed twice and the later mount path is kept
C9_Witness ==
    /\ pc = "mounts_returned"
    /\ Len(content.lines) >= 2
    /\ content.lines[1] = <<"/dev/sda1", "/">>
    /\ content.lines[2] = <<"/dev/sda1", "/home", "ext4">>
    /\ Get(mountpoints, "/dev/sda1") = Some("/home")

-----------------------------------------------------------------------------
(* Claims about main(), checked under Spec *)

BuildPcs == {"read_drives", "next_entry", "get_partitions", "next_part",
             "part_mounts", "part_probe"}
RenderPcs == {"render", "bar", "detail"}

NotDm(name) == ~(Len(name) >= 2 /\ SubSeq(name, 1, 2) = "dm")
NamesOf(ds) == [j \in 1..Len(ds) |-> ds[j].name]
Building == IF cur = NoDrive THEN <<>> ELSE <<cur.name>>

RECURSIVE TrimLeft(_)
TrimLeft(str) ==
    IF Len(str) > 0 /\ SubSeq(str, 1, 1) = " " THEN TrimLeft(SubSeq(str, 2, Len(str)))
    ELSE str

\* the lines of drives[j] that are printed are those of drives[j], in order
LinesMatch(j) ==
    /\ Offset(j) + 1 <= Len(out) =>
         (out[Offset(j) + 1].kind = "header" /\ out[Offset(j) + 1].name = drives[j].name)
    /\ BarPrinted(j) => BarOf(j).kind = "bar"
    /\ \A k \in 1..Len(drives[j].partitions) :
         DetailPrinted(j, k) =>
            /\ DetailOf(j, k).kind = "detail"
            /\ TrimLeft(DetailOf(j, k).name_str) = DetailOf(j, k).name_str
            /\ StartsWith(DetailOf(j, k).name_str, drives[j].partitions[k].name)

\* C3 as stated: drives are handled strictly one at a time, so that when
\* a drive is being built every drive discovered before it has been built
\* and rendered in full.
C3_DriveByDrive ==
    cur # NoDrive => Len(out) >= Offset(Len(drives) + 1)

\* C3, amended: drives are built one at a time in discovery order, and
\* rendered one at a time in the same order, but every drive is built
\* before any drive is rendered: while anything is being built nothing has
\* been printed, and while anything is being printed nothing is left to
\* build and the output is the complete lines of the drives before the
\* current one followed by the lines of the current one so far.
C3_BuildAllThenRenderAll ==
    /\ pc \in BuildPcs =>
         /\ out = <<>>
         /\ bar = <<>>
         /\ di = 1
         /\ (cur # NoDrive) = (pc \in {"get_partitions", "next_part", "part_mounts", "part_probe"})
         /\ (part # NoPart) = (pc \in {"part_mounts", "part_probe"})
         /\ NamesOf(drives) \o Building = SelectSeq(yielded, NotDm)
    /\ pc \in RenderPcs \cup {"done"} =>
         /\ blockEntries = <<>>
         /\ dirEntries = <<>>
         /\ cur = NoDrive
         /\ part = NoPart
         /\ di \in 1..(Len(drives) + 1)
         /\ Len(out) = Offset(di) + (IF pc = "bar" THEN 1
                                     ELSE IF pc = "detail" THEN 1 + pi
                                     ELSE 0)
         /\ \A j \in 1..Len(drives) : LinesMatch(j)

\* C3 happens: two drives with partitions were built and then rendered
C3_Witness ==
    /\ pc = "done"
    /\ Len(drives) = 2
    /\ Len(drives[1].partitions) >= 1
    /\ Len(drives[2].partitions) >= 1
    /\ Len(out) = Offset(3)

\* C4 as stated: a partition whose device path was not in the mount mapping
\* read when it was discovered has used = None, and its detail line shows
\* "Unmounted", "0.0" as the used figure and the mount path "-", whatever
\* /proc/mounts holds when the line is printed.
C4_AbsentShowsDash ==
    \A j \in 1..Len(drives) : \A k \in 1..Len(drives[j].partitions) :
        drives[j].partitions[k].name \in absentAtDiscovery =>
            /\ drives[j].partitions[k].used = None
            /\ DetailPrinted(j, k) =>
                 /\ DetailOf(j, k).usage.cells = <<"Unmounted">>
                 /\ StartsWith(TrimLeft(DetailOf(j, k).size_str), "0.0 / ")
                 /\ DetailOf(j, k).mountpoint = "-"

\* C4, amended: such a partition has used = None (not Some(0)) and its
\* detail line shows "Unmounted" and "0.0" as the used figure; the mount
\* path on the line is the one the read of /proc/mounts made for that line
\* gives: "-" when that read fails or lacks the device path, a mount path
\* otherwise.
C4_AbsentShowsUnmounted ==
    /\ \A j \in 1..Len(drives) : \A k \in 1..Len(drives[j].partitions) :
         drives[j].partitions[k].name \in absentAtDiscovery =>
            /\ drives[j].partitions[k].used = None
            /\ DetailPrinted(j, k) =>
                 /\ ~DetailOf(j, k).usage.mounted
                 /\ DetailOf(j, k).usage.cells = <<"Unmounted">>
                 /\ Len(DetailOf(j, k).size_str) = 18
                 /\ StartsWith(TrimLeft(DetailOf(j, k).size_str), "0.0 / ")
                 /\ DetailOf(j, k).mountpoint \in
                      {"-"} \cup {UnwrapOr(Get(get_mountpoints(f),
                                               DevPath(drives[j].partitions[k].name)), "-") :
                                    f \in MountFiles}
    /\ (pc = "detail" /\ pi > 1 /\ lastIO = IO("read_mounts", "/proc/mounts", FALSE)) =>
         DetailOf(di, pi - 1).mountpoint = "-"

\* C4 happens: a partition absent from the mapping at discovery is printed
\* with a mount path, /proc/mounts having changed in between
C4_Witness ==
    \E j \in 1..Len(drives) : \E k \in 1..Len(drives[j].partitions) :
        /\ drives[j].partitions[k].name \in absentAtDiscovery
        /\ DetailPrinted(j, k)
        /\ DetailOf(j, k).mountpoint = "/home"
        /\ DetailOf(j, k).usage.cells = <<"Unmounted">>

\* C5: an unreadable or unparsable size gives size 0, an unreadable
\* /proc/mounts the empty mapping, a failed statvfs used = None; none of them
\* ends the run, and the drive is still rendered. Only a failed listing of
\* /sys/block/ or of /sys/block/<drive>/ ends the run.
C5_FailuresAbsorbed ==
    /\ (lastIO.op = "read_size" /\ ~lastIO.ok) =>
         /\ pc = "get_partitions" => cur.size = 0
         /\ pc = "part_mounts" => part.size = 0
    /\ (lastIO.op = "read_mounts" /\ ~lastIO.ok) =>
         /\ pc = "part_probe" => DOMAIN mountpoints = {}
         /\ pc = "next_part" => cur.partitions[Len(cur.partitions)].used = None
    /\ (lastIO.op = "statvfs" /\ ~lastIO.ok) =>
         /\ pc = "next_part" => cur.partitions[Len(cur.partitions)].used = None
    /\ (pc = "aborted") = (lastIO.op = "read_dir" /\ ~lastIO.ok)
    /\ pc \notin {"done", "aborted"} => ENABLED Next
    /\ pc = "done" =>
         /\ Len(out) = Offset(Len(drives) + 1)
         /\ \A j \in 1..Len(drives) : LinesMatch(j)
         /\ NamesOf(drives) = SelectSeq(yielded, NotDm)

\* C5 happens: the run ended normally and printed the line of a partition
\* whose statvfs had failed
C5_Witness ==
    /\ pc = "done"
    /\ \E j \in 1..Len(drives) : \E k \in 1..Len(drives[j].partitions) :
         /\ drives[j].partitions[k].used = None
         /\ drives[j].partitions[k].name \notin absentAtDiscovery
         /\ DetailPrinted(j, k)
         /\ drives[j].size = 0

\* C6: read_drives returns one Drive for each entry of /sys/block/ whose
\* name does not start with "dm", in listing order, and none for the others;
\* no header or detail line names a "dm" device and no size or listing is
\* read for one.
C6_NoDeviceMapper ==
    /\ NamesOf(drives) \o Building = SelectSeq(yielded, NotDm)
    /\ pc \in RenderPcs \cup {"done"} => blockEntries = <<>>
    /\ lastIO.op \in {"read_size", "read_dir"} => ~StartsWith(lastIO.path, "/sys/block/dm")
    /\ \A n \in 1..Len(out) :
         /\ out[n].kind = "header" => NotDm(out[n].name)
         /\ out[n].kind = "detail" => NotDm(out[n].name_str)

\* C6 happens: /sys/block/ listed dm-0 and one other device, and the run
\* printed that device alone
C6_Witness ==
    /\ pc = "done"
    /\ \E n \in 1..Len(yielded) : yielded[n] = "dm-0"
    /\ Len(yielded) = 2
    /\ Len(drives) = 1
    /\ Len(out) = Offset(2)

\* C10: a failed listing of a drive's directory ends the whole run, and as
\* every Drive is built before any is rendered it does so before any
\* output: no line is printed for any drive, the earlier ones included.
C10_ListingFailureBeforeOutput ==
    /\ (lastIO.op = "read_dir" /\ ~lastIO.ok) => pc = "aborted"
    /\ pc = "aborted" => (out = <<>> /\ bar = <<>>)
    /\ out # <<>> => (pc \in RenderPcs \cup {"done"} /\ blockEntries = <<>> /\ cur = NoDrive)

\* C10 happens: the first drive was built with a partition, the listing of
\* the second failed, and nothing was printed
C10_Witness ==
    /\ pc = "aborted"
    /\ Len(drives) = 1
    /\ Len(drives[1].partitions) >= 1
    /\ cur # NoDrive
    /\ lastIO = IO("read_dir", "/sys/block/" \o cur.name \o "/", FALSE)
    /\ out = <<>>

====
